---- MODULE Spec2Model ----
(***************************************************************************)
(* A model of the Minesweeper rules engine: board generation with the      *)
(* seeded Mulberry32 generator, neighbour counting, first-click safety,    *)
(* the recursive reveal, win/loss detection, the chord operation and the   *)
(* game session that the application drives through its event handlers.    *)
(***************************************************************************)
EXTENDS Integers, Sequences, FiniteSets, TLC

VARIABLES
    board,       \* gameState.board, or the board a function under test works on
    status,      \* gameState.status
    timer,       \* gameState.timer
    flags,       \* gameState.flags
    firstClick,  \* gameState.firstClick
    difficulty,  \* the difficulty ref of useGameState
    pc,          \* position of the operation in progress
    args,        \* the arguments of the operation in progress or last applied
    pre,         \* the board as it was when the last operation was called
    ret,         \* the value the last operation returned
    rng,         \* the state captured by the generator closure
    minesPlaced, \* generateBoard's local counter
    stack,       \* the call stack of the recursive revealCell
    steps,       \* number of steps the operation in progress has taken
    moves,       \* events (clicks, timer ticks) the session has handled
    games,       \* newGame calls so far
    ended,       \* endGame calls in the current game
    timerInterval \* App.vue's timerInterval: "null" or "set"

vars == <<board, status, timer, flags, firstClick, difficulty, pc, args, pre,
          ret, rng, minesPlaced, stack, steps, moves, games, ended,
          timerInterval>>

(***************************************************************************)
(* 32-bit words.  A word is kept as two 16-bit halves so that no            *)
(* intermediate value leaves the range of the checker's integers; every     *)
(* operation is the unsigned 32-bit operation of the source (>>> 0,         *)
(* Math.imul, ^, |, >>>).                                                   *)
(***************************************************************************)
Half == 65536

Byte == 256

Word(hi, lo) == [hi |-> hi, lo |-> lo]

WordOf(n) == Word(n \div Half, n % Half)

\* x ^ y and x | y bit by bit
RECURSIVE XorBits(_, _)
XorBits(x, y) ==
    IF x = 0 THEN y
    ELSE IF y = 0 THEN x
    ELSE ((x + y) % 2) + 2 * XorBits(x \div 2, y \div 2)

RECURSIVE OrBits(_, _)
OrBits(x, y) ==
    IF x = 0 THEN y
    ELSE IF y = 0 THEN x
    ELSE (IF x % 2 = 1 \/ y % 2 = 1 THEN 1 ELSE 0) + 2 * OrBits(x \div 2, y \div 2)

\* the same on 4-bit digits, tabulated
Xor4 == [x \in 0 .. 15 |-> [y \in 0 .. 15 |-> XorBits(x, y)]]

Or4 == [x \in 0 .. 15 |-> [y \in 0 .. 15 |-> OrBits(x, y)]]

\* a bitwise operation on two 16-bit values, digit by digit
Digits(Op4, x, y) ==
    Op4[x % 16][y % 16]
    + 16 * Op4[(x \div 16) % 16][(y \div 16) % 16]
    + 256 * Op4[(x \div 256) % 16][(y \div 256) % 16]
    + 4096 * Op4[x \div 4096][y \div 4096]

Xor16(x, y) == Digits(Xor4, x, y)

Or16(x, y) == Digits(Or4, x, y)

Pow2(k) == 2 ^ k

XorW(a, b) == Word(Xor16(a.hi, b.hi), Xor16(a.lo, b.lo))

OrW(a, b) == Word(Or16(a.hi, b.hi), Or16(a.lo, b.lo))

\* a + b, wrapped to 32 bits
AddW(a, b) ==
    LET lo == a.lo + b.lo
        hi == a.hi + b.hi + (lo \div Half)
    IN Word(hi % Half, lo % Half)

\* a >>> k for 0 < k < 16
ShrW(a, k) ==
    Word(a.hi \div Pow2(k),
         (a.lo \div Pow2(k)) + (a.hi % Pow2(k)) * Pow2(16 - k))

\* Math.imul(a, b): the low 32 bits of the product, by 8-bit limbs
ImulW(a, b) ==
    LET a0 == a.lo % Byte   a1 == a.lo \div Byte
        a2 == a.hi % Byte   a3 == a.hi \div Byte
        b0 == b.lo % Byte   b1 == b.lo \div Byte
        b2 == b.hi % Byte   b3 == b.hi \div Byte
        t0 == a0 * b0
        t1 == a0 * b1 + a1 * b0 + (t0 \div Byte)
        t2 == a0 * b2 + a1 * b1 + a2 * b0 + (t1 \div Byte)
        t3 == a0 * b3 + a1 * b2 + a2 * b1 + a3 * b0 + (t2 \div Byte)
    IN Word((t3 % Byte) * Byte + (t2 % Byte), (t1 % Byte) * Byte + (t0 % Byte))

\* Math.floor((w / 4294967296) * n) for 0 < n < 2^15: exact in double precision
ScaleW(w, n) ==
    LET pl == w.lo * n
        ph == w.hi * n + (pl \div Half)
    IN ph \div Half

(***************************************************************************)
(* createSeededGenerator: the seed string is a sequence of char codes.      *)
(***************************************************************************)
MulberryInc == Word(27947, 31221)   \* 0x6D2B79F5

RECURSIVE HashSeed(_, _, _)
HashSeed(state, seed, i) ==
    IF i > Len(seed) THEN state
    ELSE HashSeed(AddW(ImulW(state, WordOf(31)), WordOf(seed[i])), seed, i + 1)

\* a generator closure started from the state left in rng (a generator shared
\* between calls instead of one created per call)
createSeededGenerator_shared(seed) == HashSeed(rng, seed, 1)

\* the state the closure starts from
createSeededGenerator(seed) == HashSeed(WordOf(0), seed, 1)

\* one call of the closure: <<new state, the 32-bit numerator of the result>>;
\* the three statements of the closure, each applied to the value the one
\* before it left in state or t.  The source adds to state without
\* truncating it; every use of state is an operand of ^, | or >>>, which
\* read it modulo 2^32, so the state is kept modulo 2^32 (the sum stays an
\* exact integer, below 2^53, for the first 4 million calls).
Mulberry32(state) ==
    LET Return(s, t) == <<s, XorW(t, ShrW(t, 14))>>
        Mix(s, t) ==
            Return(s, XorW(t, AddW(t, ImulW(XorW(t, ShrW(t, 7)), OrW(t, WordOf(61))))))
        Advance32(s) == Mix(s, ImulW(XorW(s, ShrW(s, 15)), OrW(s, WordOf(1))))
    IN Advance32(AddW(state, MulberryInc))

(***************************************************************************)
(* Boards.  A board is its dimensions and a cell record per position; a    *)
(* cell carries its own row and col, as in the Cell type.                   *)
(***************************************************************************)
Pos(rows, cols) == (0 .. rows - 1) \X (0 .. cols - 1)

Cells(b) == DOMAIN b.cell

InBounds(b, row, col) == row >= 0 /\ row < b.rows /\ col >= 0 /\ col < b.cols

\* the object literal of generateBoard and of createBoard
NewCell(r, c) ==
    [row |-> r, col |-> c, isMine |-> FALSE, isRevealed |-> FALSE,
     isFlagged |-> FALSE, neighborMines |-> 0]

\* the nested loops that allocate the rows x cols cells
EmptyBoard(rows, cols) ==
    [rows |-> rows, cols |-> cols,
     cell |-> [p \in Pos(rows, cols) |-> NewCell(p[1], p[2])]]

SetMine(b, p, v) == [b EXCEPT !.cell[p].isMine = v]

Mines(b) == {p \in Cells(b) : b.cell[p].isMine}

Revealed(b) == {p \in Cells(b) : b.cell[p].isRevealed}

Flagged(b) == {p \in Cells(b) : b.cell[p].isFlagged}

(***************************************************************************)
(* generateBoard                                                            *)
(***************************************************************************)
\* a placement loop that counts a draw even when the cell already holds a mine
PlaceMineStep_countAll(b, st, placed) ==
    LET Place(row, col, st2) ==
            [board |-> SetMine(b, <<row, col>>, TRUE), rng |-> st2,
             minesPlaced |-> placed + 1]
        DrawCol(row, d2) == Place(row, ScaleW(d2[2], b.cols), d2[1])
        DrawRow(d1) == DrawCol(ScaleW(d1[2], b.rows), Mulberry32(d1[1]))
    IN DrawRow(Mulberry32(st))

\* one iteration of the while loop: two draws, then place if the cell is free
PlaceMineStep(b, st, placed) ==
    LET Place(row, col, st2) ==
            IF ~b.cell[<<row, col>>].isMine
            THEN [board |-> SetMine(b, <<row, col>>, TRUE), rng |-> st2,
                  minesPlaced |-> placed + 1]
            ELSE [board |-> b, rng |-> st2, minesPlaced |-> placed]
        DrawCol(row, d2) == Place(row, ScaleW(d2[2], b.cols), d2[1])
        DrawRow(d1) == DrawCol(ScaleW(d1[2], b.rows), Mulberry32(d1[1]))
    IN DrawRow(Mulberry32(st))

\* a loop condition that also stops at a full board
MinesToPlace_capacity(b, placed, mines) ==
    placed < mines /\ placed < b.rows * b.cols

\* the condition of the while loop: minesPlaced < mines, whatever the board
MinesToPlace(b, placed, mines) == placed < mines

\* up to 2^k iterations of the while loop from the loop state n (board, rng,
\* minesPlaced), stopping when the loop condition fails
RECURSIVE PlaceMines(_, _, _)
PlaceMines(n, mines, k) ==
    IF ~MinesToPlace(n.board, n.minesPlaced, mines) THEN n
    ELSE IF k = 0 THEN PlaceMineStep(n.board, n.rng, n.minesPlaced)
    ELSE PlaceMines(PlaceMines(n, mines, k - 1), mines, k - 1)

\* the while loop run until its condition fails, in rounds of 1, 2, 4, ...
\* iterations (the number of draws it takes has no bound known in advance)
RECURSIVE PlaceAllMines(_, _, _)
PlaceAllMines(n, mines, k) ==
    IF ~MinesToPlace(n.board, n.minesPlaced, mines) THEN n
    ELSE PlaceAllMines(PlaceMines(n, mines, k), mines, k + 1)

generateBoard(rows, cols, mines, seed) ==
    PlaceAllMines([board |-> EmptyBoard(rows, cols),
                   rng |-> createSeededGenerator(seed),
                   minesPlaced |-> 0], mines, 0).board

(***************************************************************************)
(* calculateNumbers                                                         *)
(***************************************************************************)
Deltas == {-1, 0, 1}

\* the positions the dr/dc loops visit around (r, c), the cell itself excluded
Around(b, r, c) ==
    {q \in Cells(b) : /\ q[1] - r \in Deltas
                      /\ q[2] - c \in Deltas
                      /\ ~(q[1] = r /\ q[2] = c)}

\* the clipped 3 x 3 block around (r, c), the cell itself included
Block(b, r, c) ==
    {q \in Cells(b) : q[1] - r \in Deltas /\ q[2] - c \in Deltas}

\* a count over the four cells sharing an edge with (r, c)
neighborCount_edges(b, r, c) ==
    Cardinality({q \in Around(b, r, c) :
                    b.cell[q].isMine /\ (q[1] = r \/ q[2] = c)})

neighborCount(b, r, c) ==
    Cardinality({q \in Around(b, r, c) : b.cell[q].isMine})

\* a count added to the neighborMines the cell already has
calculateNumbers_add(b) ==
    [b EXCEPT !.cell =
        [p \in Cells(b) |->
            IF b.cell[p].isMine
            THEN b.cell[p]
            ELSE [b.cell[p] EXCEPT !.neighborMines = @ + neighborCount(b, p[1], p[2])]]]

calculateNumbers(b) ==
    [b EXCEPT !.cell =
        [p \in Cells(b) |->
            IF b.cell[p].isMine
            THEN b.cell[p]
            ELSE [b.cell[p] EXCEPT !.neighborMines = neighborCount(b, p[1], p[2])]]]

(***************************************************************************)
(* ensureFirstClickSafety                                                   *)
(***************************************************************************)
\* the positions of the board in the order of the r, c loops
RowMajor(b) ==
    [k \in 1 .. b.rows * b.cols |-> <<(k - 1) \div b.cols, (k - 1) % b.cols>>]

isSafe(b, firstClickRow, firstClickCol) ==
    /\ ~b.cell[<<firstClickRow, firstClickCol>>].isMine
    /\ \A q \in Block(b, firstClickRow, firstClickCol) : ~b.cell[q].isMine

minesInUnsafeArea(b, firstClickRow, firstClickCol) ==
    LET unsafeCells == Block(b, firstClickRow, firstClickCol)
        Take(p)     == b.cell[p].isMine /\ p \in unsafeCells
    IN SelectSeq(RowMajor(b), Take)

\* the destinations collected from the last cell of the board backwards
safeCellsWithoutMines_reverse(b, firstClickRow, firstClickCol) ==
    LET unsafeCells == Block(b, firstClickRow, firstClickCol)
        Take(p)     == ~b.cell[p].isMine /\ p \notin unsafeCells
        cells       == RowMajor(b)
        n           == Len(cells)
    IN SelectSeq([k \in 1 .. n |-> cells[n + 1 - k]], Take)

safeCellsWithoutMines(b, firstClickRow, firstClickCol) ==
    LET unsafeCells == Block(b, firstClickRow, firstClickCol)
        Take(p)     == ~b.cell[p].isMine /\ p \notin unsafeCells
    IN SelectSeq(RowMajor(b), Take)

Min(x, y) == IF x <= y THEN x ELSE y

\* the for loop that moves the mines, from index i on
RECURSIVE MoveMines(_, _, _, _, _)
MoveMines(b, from, to, i, movesToMake) ==
    IF i > movesToMake THEN b
    ELSE MoveMines(SetMine(SetMine(b, from[i], FALSE), to[i], TRUE),
                   from, to, i + 1, movesToMake)

\* a relocation that clears the unsafe mines without placing them elsewhere
ensureFirstClickSafety_drop(b, firstClickRow, firstClickCol) ==
    IF isSafe(b, firstClickRow, firstClickCol) THEN b
    ELSE calculateNumbers(
           [b EXCEPT !.cell =
              [p \in Cells(b) |->
                 IF p \in Block(b, firstClickRow, firstClickCol)
                 THEN [b.cell[p] EXCEPT !.isMine = FALSE]
                 ELSE b.cell[p]]])

\* a relocation that moves one mine only
ensureFirstClickSafety_one(b, firstClickRow, firstClickCol) ==
    IF isSafe(b, firstClickRow, firstClickCol) THEN b
    ELSE LET from == minesInUnsafeArea(b, firstClickRow, firstClickCol)
             to   == safeCellsWithoutMines(b, firstClickRow, firstClickCol)
         IN calculateNumbers(MoveMines(b, from, to, 1, Min(1, Min(Len(from), Len(to)))))

\* a relocation that leaves the neighbour counts of the old layout
ensureFirstClickSafety_stale(b, firstClickRow, firstClickCol) ==
    IF isSafe(b, firstClickRow, firstClickCol) THEN b
    ELSE LET from == minesInUnsafeArea(b, firstClickRow, firstClickCol)
             to   == safeCellsWithoutMines(b, firstClickRow, firstClickCol)
             movesToMake == Min(Len(from), Len(to))
         IN MoveMines(b, from, to, 1, movesToMake)

\* a call that recomputes the neighbour counts on a safe board as well
ensureFirstClickSafety_recount(b, firstClickRow, firstClickCol) ==
    LET from == minesInUnsafeArea(b, firstClickRow, firstClickCol)
        to   == safeCellsWithoutMines(b, firstClickRow, firstClickCol)
        movesToMake == Min(Len(from), Len(to))
    IN calculateNumbers(MoveMines(b, from, to, 1, movesToMake))

ensureFirstClickSafety(b, firstClickRow, firstClickCol) ==
    IF isSafe(b, firstClickRow, firstClickCol) THEN b
    ELSE LET from == minesInUnsafeArea(b, firstClickRow, firstClickCol)
             to   == safeCellsWithoutMines(b, firstClickRow, firstClickCol)
             movesToMake == Min(Len(from), Len(to))
         IN calculateNumbers(MoveMines(b, from, to, 1, movesToMake))

(***************************************************************************)
(* validateCustomDifficulty.  Math.floor(totalCells * 0.99) in double       *)
(* precision equals the integer quotient (99 * totalCells) \div 100 for     *)
(* every totalCells in 0 .. 2500, the range the size limits leave.          *)
(***************************************************************************)
minSize == 5

maxSize == 50

\* a validator that lets a board of mines only through
validateCustomDifficulty_full(rows, cols, mines) ==
    LET totalCells == rows * cols
        maxMines   == totalCells
    IN /\ ~(rows < minSize \/ rows > maxSize)
       /\ ~(cols < minSize \/ cols > maxSize)
       /\ ~(mines < 1)
       /\ ~(mines > maxMines)

\* a validator that lets a board without mines through
validateCustomDifficulty_noMines(rows, cols, mines) ==
    LET totalCells == rows * cols
        maxMines   == (99 * totalCells) \div 100
    IN /\ ~(rows < minSize \/ rows > maxSize)
       /\ ~(cols < minSize \/ cols > maxSize)
       /\ ~(mines < 0)
       /\ ~(mines > maxMines)

validateCustomDifficulty(rows, cols, mines) ==
    LET totalCells == rows * cols
        maxMines   == (99 * totalCells) \div 100
    IN /\ ~(rows < minSize \/ rows > maxSize)
       /\ ~(cols < minSize \/ cols > maxSize)
       /\ ~(mines < 1)
       /\ ~(mines > maxMines)

\* the computed validateCustomDifficulty of GameControls, which yields
\* {valid, maxMines}.  Math.floor(totalCells * 0.85) in double precision
\* equals (85 * totalCells) \div 100 for every totalCells in -3000 .. 3000.
\* This one caps the mines at the number of cells.
GameControls_validateCustomDifficulty_full(rows, cols, mines) ==
    LET totalCells == rows * cols
        maxMines   == totalCells
    IN [valid |-> /\ rows >= 5 /\ rows <= 30 /\ cols >= 5 /\ cols <= 30
                  /\ mines >= 1 /\ mines <= maxMines,
        maxMines |-> maxMines]

GameControls_validateCustomDifficulty(rows, cols, mines) ==
    LET totalCells == rows * cols
        maxMines   == (85 * totalCells) \div 100
    IN [valid |-> /\ rows >= 5 /\ rows <= 30 /\ cols >= 5 /\ cols <= 30
                  /\ mines >= 1 /\ mines <= maxMines,
        maxMines |-> maxMines]

(***************************************************************************)
(* gameLogic: getNeighbors, revealCell, checkWin, checkLoss, revealAllMines *)
(***************************************************************************)
\* the (dr, dc) pairs in the order of the two loops, (0, 0) skipped
Directions ==
    <<<<-1, -1>>, <<-1, 0>>, <<-1, 1>>, <<0, -1>>, <<0, 1>>,
      <<1, -1>>, <<1, 0>>, <<1, 1>>>>

\* a getNeighbors without the test that skips the cell itself
getNeighbors_self(b, row, col) ==
    LET all     == [i \in 1 .. 9 |->
                       <<row + ((i - 1) \div 3) - 1, col + ((i - 1) % 3) - 1>>]
        Keep(q) == InBounds(b, q[1], q[2])
    IN SelectSeq(all, Keep)

\* the neighbours as positions into the board (the code returns the cell
\* objects themselves, which alias the board's cells)
getNeighbors(b, row, col) ==
    LET At(i)   == <<row + Directions[i][1], col + Directions[i][2]>>
        all     == [i \in 1 .. Len(Directions) |-> At(i)]
        Keep(q) == InBounds(b, q[1], q[2])
    IN SelectSeq(all, Keep)

SetRevealed(b, p) == [b EXCEPT !.cell[p].isRevealed = TRUE]

\* revealCell calls itself; the recursion is run on an explicit call stack.
\* A frame is an invocation that has reached its for loop: its neighbours
\* and the index of the next one to visit.

\* an invocation that never marks the cell it visits
Enter_noMark(b, st, row, col) ==
    IF ~InBounds(b, row, col) THEN [board |-> b, stack |-> st]
    ELSE LET cell == b.cell[<<row, col>>]
         IN IF cell.isFlagged \/ cell.isRevealed THEN [board |-> b, stack |-> st]
            ELSE IF cell.isMine \/ cell.neighborMines > 0
                 THEN [board |-> b, stack |-> st]
            ELSE [board |-> b,
                  stack |-> Append(st, [row |-> row, col |-> col, i |-> 1,
                                        neighbors |-> getNeighbors(b, row, col)])]

\* an invocation that goes on to its for loop from a numbered cell too
Enter_past(b, st, row, col) ==
    IF ~InBounds(b, row, col) THEN [board |-> b, stack |-> st]
    ELSE LET cell == b.cell[<<row, col>>]
             b1   == SetRevealed(b, <<row, col>>)
         IN IF cell.isFlagged \/ cell.isRevealed THEN [board |-> b, stack |-> st]
            ELSE IF cell.isMine THEN [board |-> b1, stack |-> st]
            ELSE [board |-> b1,
                  stack |-> Append(st, [row |-> row, col |-> col, i |-> 1,
                                        neighbors |-> getNeighbors(b1, row, col)])]

\* an invocation that does not look at the flag of its cell
Enter_flag(b, st, row, col) ==
    IF ~InBounds(b, row, col) THEN [board |-> b, stack |-> st]
    ELSE LET cell == b.cell[<<row, col>>]
             b1   == SetRevealed(b, <<row, col>>)
         IN IF cell.isRevealed THEN [board |-> b, stack |-> st]
            ELSE IF cell.isMine \/ cell.neighborMines > 0
                 THEN [board |-> b1, stack |-> st]
            ELSE [board |-> b1,
                  stack |-> Append(st, [row |-> row, col |-> col, i |-> 1,
                                        neighbors |-> getNeighbors(b1, row, col)])]

\* an invocation from its first line up to its return or its for loop
Enter(b, st, row, col) ==
    IF ~InBounds(b, row, col) THEN [board |-> b, stack |-> st]
    ELSE LET cell == b.cell[<<row, col>>]
             b1   == SetRevealed(b, <<row, col>>)
         IN IF cell.isFlagged \/ cell.isRevealed THEN [board |-> b, stack |-> st]
            ELSE IF cell.isMine THEN [board |-> b1, stack |-> st]
            ELSE IF cell.neighborMines > 0 THEN [board |-> b1, stack |-> st]
            ELSE [board |-> b1,
                  stack |-> Append(st, [row |-> row, col |-> col, i |-> 1,
                                        neighbors |-> getNeighbors(b1, row, col)])]

Top(st) == st[Len(st)]

Advance(st) == [st EXCEPT ![Len(st)].i = @ + 1]

\* a for loop that reveals the flagged neighbours of a zero-count cell too
Visit_flagged(b, st) ==
    LET neighbor == b.cell[Top(st).neighbors[Top(st).i]]
    IN IF neighbor.isRevealed THEN [board |-> b, stack |-> Advance(st)]
       ELSE IF neighbor.isFlagged
            THEN [board |-> SetRevealed(b, <<neighbor.row, neighbor.col>>),
                  stack |-> Advance(st)]
       ELSE Enter(b, Advance(st), neighbor.row, neighbor.col)

\* one iteration of the for loop of the innermost invocation: the neighbour
\* is tested against the board as the earlier calls left it, and the
\* recursive call is entered
Visit(b, st) ==
    LET neighbor == b.cell[Top(st).neighbors[Top(st).i]]
    IN IF ~neighbor.isRevealed /\ ~neighbor.isFlagged
       THEN Enter(b, Advance(st), neighbor.row, neighbor.col)
       ELSE [board |-> b, stack |-> Advance(st)]

\* the innermost invocation has visited every neighbour and returns
Return(b, st) == [board |-> b, stack |-> SubSeq(st, 1, Len(st) - 1)]

\* the next step of the innermost invocation
Step(s) ==
    IF Top(s.stack).i <= Len(Top(s.stack).neighbors)
    THEN Visit(s.board, s.stack)
    ELSE Return(s.board, s.stack)

\* up to 2^k steps, stopping when the outermost invocation has returned
RECURSIVE Run(_, _)
Run(s, k) ==
    IF s.stack = <<>> THEN s
    ELSE IF k = 0 THEN Step(s)
    ELSE Run(Run(s, k - 1), k - 1)

\* the steps up to the return of the outermost invocation, in rounds of
\* 1, 2, 4, ... steps
RECURSIVE RunToReturn(_, _)
RunToReturn(s, k) ==
    IF s.stack = <<>> THEN s
    ELSE RunToReturn(Run(s, k), k + 1)

revealCell(b, row, col) == RunToReturn(Enter(b, <<>>, row, col), 0).board

checkWin(b, totalMines) ==
    LET totalCells   == b.rows * b.cols
        nonMineCells == totalCells - totalMines
        revealedCount == Cardinality(Revealed(b))
    IN revealedCount = nonMineCells

\* the nested for loops of checkLoss from the i-th cell in row-major order on
RECURSIVE ScanLoss(_, _, _)
ScanLoss(b, cells, i) ==
    IF i > Len(cells) THEN FALSE
    ELSE IF b.cell[cells[i]].isMine /\ b.cell[cells[i]].isRevealed THEN TRUE
    ELSE ScanLoss(b, cells, i + 1)

\* a checkLoss that looks at the first row only
checkLoss_firstRow(b) ==
    ScanLoss(b, SelectSeq(RowMajor(b), LAMBDA p : p[1] = 0), 1)

checkLoss(b) == ScanLoss(b, RowMajor(b), 1)

\* a revealAllMines that takes the flags off the mines it reveals
revealAllMines_unflag(b) ==
    [b EXCEPT !.cell =
        [p \in Cells(b) |->
            IF b.cell[p].isMine
            THEN [b.cell[p] EXCEPT !.isRevealed = TRUE, !.isFlagged = FALSE]
            ELSE b.cell[p]]]

\* a revealAllMines that shows the mines and nothing else
revealAllMines_only(b) ==
    [b EXCEPT !.cell =
        [p \in Cells(b) |-> [b.cell[p] EXCEPT !.isRevealed = b.cell[p].isMine]]]

revealAllMines(b) ==
    [b EXCEPT !.cell =
        [p \in Cells(b) |->
            IF b.cell[p].isMine
            THEN [b.cell[p] EXCEPT !.isRevealed = TRUE]
            ELSE b.cell[p]]]

(***************************************************************************)
(* chordLogic: canChord, chord                                              *)
(***************************************************************************)
\* a canChord that accepts more flags than neighborMines
canChord_atLeast(b, row, col) ==
    IF row < 0 \/ row >= b.rows \/ col < 0 \/ col >= b.cols THEN FALSE
    ELSE LET cell == b.cell[<<row, col>>]
             IsFlagged(q) == b.cell[q].isFlagged
             flaggedCount == Len(SelectSeq(getNeighbors(b, row, col), IsFlagged))
         IN IF ~cell.isRevealed THEN FALSE
            ELSE IF cell.neighborMines = 0 THEN FALSE
            ELSE flaggedCount >= cell.neighborMines

canChord(b, row, col) ==
    IF row < 0 \/ row >= b.rows \/ col < 0 \/ col >= b.cols THEN FALSE
    ELSE LET cell == b.cell[<<row, col>>]
             IsFlagged(q) == b.cell[q].isFlagged
             flaggedCount == Len(SelectSeq(getNeighbors(b, row, col), IsFlagged))
         IN IF ~cell.isRevealed THEN FALSE
            ELSE IF cell.neighborMines = 0 THEN FALSE
            ELSE flaggedCount = cell.neighborMines

\* a chord that filters on the flag only
chord_unflagged(b, row, col) ==
    LET Candidate(q) == ~b.cell[q].isFlagged
    IN IF ~canChord(b, row, col) THEN <<>>
       ELSE SelectSeq(getNeighbors(b, row, col), Candidate)

chord(b, row, col) ==
    LET Candidate(q) == ~b.cell[q].isFlagged /\ ~b.cell[q].isRevealed
    IN IF ~canChord(b, row, col) THEN <<>>
       ELSE SelectSeq(getNeighbors(b, row, col), Candidate)

(***************************************************************************)
(* Input boards for the functions checked on their own.                     *)
(***************************************************************************)
MaxSide == 3    \* longest side of an input board

MaxCells == 9   \* most cells of an input board

MaxMarks == 3   \* most fields set (isMine, isFlagged, isRevealed) on an input

Dims == {d \in (1 .. MaxSide) \X (1 .. MaxSide) : d[1] * d[2] <= MaxCells}

\* the board with mines M, flags F and revealed cells R; counted says whether
\* calculateNumbers has been run on it (otherwise every neighborMines is 0)
MakeBoard(d, M, F, R, counted) ==
    LET raw == [rows |-> d[1], cols |-> d[2],
                cell |-> [p \in Pos(d[1], d[2]) |->
                            [row |-> p[1], col |-> p[2], isMine |-> p \in M,
                             isRevealed |-> p \in R, isFlagged |-> p \in F,
                             neighborMines |-> 0]]]
    IN IF counted THEN calculateNumbers(raw) ELSE raw

SubsetsUpTo(S, k) == {T \in SUBSET S : Cardinality(T) <= k}

\* the targets tried on a board: every cell, and one position beyond each edge
Targets(b) ==
    Cells(b) \cup {<<-1, 0>>, <<0, -1>>, <<b.rows, 0>>, <<0, b.cols>>}

NoBoard == [rows |-> 0, cols |-> 0, cell |-> <<>>]

NoArgs == [op |-> "none"]

NoWord == WordOf(0)

\* the null the difficulty ref starts with
NoDifficulty == [name |-> "null", rows |-> 0, cols |-> 0, mines |-> 0]

\* the variables of the session, while a function is checked on its own
SessionIdle ==
    /\ status = "" /\ timer = 0 /\ flags = 0 /\ firstClick = TRUE
    /\ difficulty = NoDifficulty /\ moves = 0 /\ games = 0 /\ ended = 0
    /\ timerInterval = "null"

SessionSame == UNCHANGED <<status, timer, flags, firstClick, difficulty,
                           moves, games, ended, timerInterval>>

GenIdle == rng = NoWord /\ minesPlaced = 0

GenSame == UNCHANGED <<rng, minesPlaced>>

\* board[firstClickRow][firstClickCol].isMine is read before any test of
\* the position: board[firstClickRow] is undefined for a row outside the
\* board and board[firstClickRow][firstClickCol] for a column outside it,
\* and reading a property of undefined raises a TypeError
ensureFirstClickSafetyThrows(b, firstClickRow, firstClickCol) ==
    ~InBounds(b, firstClickRow, firstClickCol)

(***************************************************************************)
(* SpecSafety: ensureFirstClickSafety and calculateNumbers applied to an    *)
(* input board.                                                             *)
(***************************************************************************)
\* every mine layout on every board size, counted or not
InitSafety ==
    /\ \E d \in Dims : \E M \in SUBSET Pos(d[1], d[2]) : \E counted \in BOOLEAN :
       \E F \in {{}, {<<0, 0>>}} : \E R \in {{}, {<<d[1] - 1, d[2] - 1>>}} :
         board = MakeBoard(d, M, F, R, counted)
    /\ pc = "input" /\ args = NoArgs /\ pre = NoBoard /\ ret = "none"
    /\ stack = <<>> /\ steps = 0
    /\ SessionIdle /\ GenIdle

\* ensureFirstClickSafety(board, row, col).  The call raises a TypeError at
\* its first read of the clicked cell when the position is outside the
\* board, and leaves the board as it was.
DoEnsureFirstClickSafety ==
    /\ pc = "input"
    /\ \E p \in Targets(board) :
         /\ args' = [op |-> "ensureFirstClickSafety", row |-> p[1], col |-> p[2]]
         /\ IF ensureFirstClickSafetyThrows(board, p[1], p[2])
            THEN board' = board /\ ret' = "TypeError" /\ pc' = "raised"
            ELSE /\ board' = ensureFirstClickSafety(board, p[1], p[2])
                 /\ ret' = "board"
                 /\ pc' = "ensureFirstClickSafety"
    /\ pre' = board
    /\ UNCHANGED <<stack, steps>> /\ SessionSame /\ GenSame

DoCalculateNumbers ==
    /\ pc \in {"input", "calculateNumbers", "ensureFirstClickSafety"}
    /\ args' = [op |-> "calculateNumbers"]
    /\ board' = calculateNumbers(board)
    /\ pre' = board
    /\ ret' = "board"
    /\ pc' = CASE pc = "input" -> "calculateNumbers"
              [] pc = "calculateNumbers" -> "calculateNumbers2"
              [] OTHER -> "recount"
    /\ UNCHANGED <<stack, steps>> /\ SessionSame /\ GenSame

NextSafety == DoEnsureFirstClickSafety \/ DoCalculateNumbers

SpecSafety == InitSafety /\ [][NextSafety]_vars

(***************************************************************************)
(* SpecReveal: revealCell and the win test applied to an input board.       *)
(***************************************************************************)
\* every board with at most MaxMarks fields set, counted or not
InitReveal ==
    /\ \E d \in Dims :
       \E M \in SubsetsUpTo(Pos(d[1], d[2]), MaxMarks) :
       \E F \in SubsetsUpTo(Pos(d[1], d[2]), MaxMarks - Cardinality(M)) :
       \E R \in SubsetsUpTo(Pos(d[1], d[2]),
                            MaxMarks - Cardinality(M) - Cardinality(F)) :
       \E counted \in BOOLEAN :
         board = MakeBoard(d, M, F, R, counted)
    /\ pc = "input" /\ args = NoArgs /\ pre = NoBoard /\ ret = "none"
    /\ stack = <<>> /\ steps = 0
    /\ SessionIdle /\ GenIdle

\* revealCell(board, row, col), and a second call with the same arguments
DoRevealCell ==
    /\ pc \in {"input", "revealCell"}
    /\ \E t \in Targets(board) :
         /\ pc = "revealCell" => (t[1] = args.row /\ t[2] = args.col)
         /\ args' = [op |-> "revealCell", row |-> t[1], col |-> t[2]]
         /\ board' = revealCell(board, t[1], t[2])
    /\ pre' = board
    /\ ret' = "board"
    /\ pc' = IF pc = "input" THEN "revealCell" ELSE "revealCell2"
    /\ UNCHANGED <<stack, steps>> /\ SessionSame /\ GenSame

\* checkWin(board, totalMines), on an input or on the result of a reveal
DoCheckWin ==
    /\ pc \in {"input", "revealCell"}
    /\ \E totalMines \in (IF pc = "input" THEN 0 .. board.rows * board.cols
                           ELSE {Cardinality(Mines(board))}) :
         /\ args' = [op |-> "checkWin", totalMines |-> totalMines]
         /\ ret' = checkWin(board, totalMines)
    /\ pre' = board
    /\ pc' = "checkWin"
    /\ UNCHANGED <<board, stack, steps>> /\ SessionSame /\ GenSame

\* checkLoss(board), on an input or on the result of a reveal
DoCheckLoss ==
    /\ pc \in {"input", "revealCell"}
    /\ args' = [op |-> "checkLoss"]
    /\ ret' = checkLoss(board)
    /\ pre' = board
    /\ pc' = "checkLoss"
    /\ UNCHANGED <<board, stack, steps>> /\ SessionSame /\ GenSame

\* revealAllMines(board) on an input
DoRevealAllMines ==
    /\ pc = "input"
    /\ args' = [op |-> "revealAllMines"]
    /\ board' = revealAllMines(board)
    /\ pre' = board
    /\ ret' = "board"
    /\ pc' = "revealAllMines"
    /\ UNCHANGED <<stack, steps>> /\ SessionSame /\ GenSame

NextReveal == DoRevealCell \/ DoCheckWin \/ DoCheckLoss \/ DoRevealAllMines

SpecReveal == InitReveal /\ [][NextReveal]_vars

\* the board with the cells listed in the sequence cells marked revealed
WithRevealedCells(b, cells) ==
    [b EXCEPT !.cell = [p \in Cells(b) |->
        IF \E i \in 1 .. Len(cells) : cells[i] = p
        THEN [b.cell[p] EXCEPT !.isRevealed = TRUE] ELSE b.cell[p]]]

(***************************************************************************)
(* SpecChord: canChord and chord applied to an input board.                 *)
(***************************************************************************)
\* the board as a call leaves it.  canChord reads board[row][col] and the
\* cells getNeighbors returns and assigns to none of them; chord returns the
\* array filter builds and assigns to no cell either.
canChordBoard(b, row, col) == b

\* a chord that reveals the cells it returns
chordBoard_reveal(b, row, col) ==
    WithRevealedCells(b, chord(b, row, col))

chordBoard(b, row, col) == b

ChordMarks == 4   \* mines, flags and revealed cells of an input board

\* boards with their neighbour counts computed, as chords meet them
InitChord ==
    /\ \E d \in Dims :
       \E M \in SubsetsUpTo(Pos(d[1], d[2]), ChordMarks) :
       \E F \in SubsetsUpTo(Pos(d[1], d[2]), ChordMarks - Cardinality(M)) :
       \E R \in SubsetsUpTo(Pos(d[1], d[2]),
                            ChordMarks - Cardinality(M) - Cardinality(F)) :
         board = MakeBoard(d, M, F, R, TRUE)
    /\ pc = "input" /\ args = NoArgs /\ pre = NoBoard /\ ret = "none"
    /\ stack = <<>> /\ steps = 0
    /\ SessionIdle /\ GenIdle

DoCanChord ==
    /\ pc = "input"
    /\ \E t \in Targets(board) :
         /\ args' = [op |-> "canChord", row |-> t[1], col |-> t[2]]
         /\ ret' = canChord(board, t[1], t[2])
         /\ board' = canChordBoard(board, t[1], t[2])
    /\ pre' = board
    /\ pc' = "canChord"
    /\ UNCHANGED <<stack, steps>> /\ SessionSame /\ GenSame

DoChord ==
    /\ pc = "input"
    /\ \E t \in Targets(board) :
         /\ args' = [op |-> "chord", row |-> t[1], col |-> t[2]]
         /\ ret' = chord(board, t[1], t[2])
         /\ board' = chordBoard(board, t[1], t[2])
    /\ pre' = board
    /\ pc' = "chord"
    /\ UNCHANGED <<stack, steps>> /\ SessionSame /\ GenSame

NextChord == DoCanChord \/ DoChord

SpecChord == InitChord /\ [][NextChord]_vars

(***************************************************************************)
(* SpecValidate: validateCustomDifficulty applied to integer arguments.     *)
(***************************************************************************)
\* sizes below, at and above the two limits, and a negative one
ValidateSizes == {-5, 0, 4, 5, 6, 10, 29, 30, 31, 49, 50, 51}

\* mine counts around 1, around 85% and 99% of the cells and around all
\* the cells
ValidateMines(rows, cols) ==
    {-1, 0, 1, 2}
        \cup {(85 * rows * cols) \div 100 + k : k \in {-1, 0, 1}}
        \cup {(99 * rows * cols) \div 100 + k : k \in {-1, 0, 1}}
        \cup {rows * cols - 1, rows * cols}

InitValidate ==
    /\ board = NoBoard
    /\ pc = "input" /\ args = NoArgs /\ pre = NoBoard /\ ret = "none"
    /\ stack = <<>> /\ steps = 0
    /\ SessionIdle /\ GenIdle

DoValidate ==
    /\ pc = "input"
    /\ \E rows \in ValidateSizes : \E cols \in ValidateSizes :
       \E mines \in ValidateMines(rows, cols) :
         /\ args' = [op |-> "validateCustomDifficulty",
                     rows |-> rows, cols |-> cols, mines |-> mines]
         /\ ret' = validateCustomDifficulty(rows, cols, mines)
    /\ pc' = "validated"
    /\ UNCHANGED <<board, pre, stack, steps>> /\ SessionSame /\ GenSame

\* the validator of GameControls applied to the same three numbers
DoValidateControls ==
    /\ pc = "validated"
    /\ args' = [op |-> "GameControls.validateCustomDifficulty",
                rows |-> args.rows, cols |-> args.cols, mines |-> args.mines,
                valid |-> GameControls_validateCustomDifficulty(
                              args.rows, args.cols, args.mines).valid]
    /\ pc' = "compared"
    /\ UNCHANGED <<board, pre, ret, stack, steps>> /\ SessionSame /\ GenSame

NextValidate == DoValidate \/ DoValidateControls

SpecValidate == InitValidate /\ [][NextValidate]_vars

(***************************************************************************)
(* SpecNeighbors: getNeighbors applied to positions of a board.             *)
(***************************************************************************)
NeighborSide == 5   \* largest number of rows and of columns of a board

InitNeighbors ==
    /\ \E d \in (1 .. NeighborSide) \X (1 .. NeighborSide) :
         board = MakeBoard(d, {}, {}, {}, FALSE)
    /\ pc = "input" /\ args = NoArgs /\ pre = NoBoard /\ ret = "none"
    /\ stack = <<>> /\ steps = 0
    /\ SessionIdle /\ GenIdle

\* getNeighbors(board, row, col), inside the board and one position outside
DoGetNeighbors ==
    /\ pc = "input"
    /\ \E row \in -1 .. board.rows : \E col \in -1 .. board.cols :
         /\ args' = [op |-> "getNeighbors", row |-> row, col |-> col]
         /\ ret' = getNeighbors(board, row, col)
    /\ pre' = board
    /\ pc' = "getNeighbors"
    /\ UNCHANGED <<board, stack, steps>> /\ SessionSame /\ GenSame

NextNeighbors == DoGetNeighbors

SpecNeighbors == InitNeighbors /\ [][NextNeighbors]_vars

(***************************************************************************)
(* SpecRevealSteps: the recursion of revealCell taken one step at a time,    *)
(* the call stack kept in the variable stack.                               *)
(***************************************************************************)
StepMarks == MaxMarks - 1

InitRevealSteps ==
    /\ \E d \in Dims :
       \E M \in SubsetsUpTo(Pos(d[1], d[2]), StepMarks) :
       \E F \in SubsetsUpTo(Pos(d[1], d[2]), StepMarks - Cardinality(M)) :
       \E R \in SubsetsUpTo(Pos(d[1], d[2]),
                            StepMarks - Cardinality(M) - Cardinality(F)) :
       \E counted \in BOOLEAN :
         board = MakeBoard(d, M, F, R, counted)
    /\ pc = "input" /\ args = NoArgs /\ pre = NoBoard /\ ret = "none"
    /\ stack = <<>> /\ steps = 0
    /\ SessionIdle /\ GenIdle

\* the outermost call revealCell(board, row, col)
RevealCall ==
    /\ pc = "input"
    /\ \E t \in Targets(board) :
         LET e == Enter(board, <<>>, t[1], t[2])
         IN /\ args' = [op |-> "revealCell", row |-> t[1], col |-> t[2]]
            /\ board' = e.board
            /\ stack' = e.stack
            /\ pc' = IF e.stack = <<>> THEN "done" ELSE "running"
    /\ pre' = board
    /\ steps' = 1
    /\ UNCHANGED ret /\ SessionSame /\ GenSame

\* one iteration of the for loop of the innermost invocation, including the
\* entry of the recursive call it makes
RevealVisit ==
    /\ pc = "running"
    /\ Top(stack).i <= Len(Top(stack).neighbors)
    /\ LET e == Visit(board, stack)
       IN board' = e.board /\ stack' = e.stack
    /\ steps' = steps + 1
    /\ UNCHANGED <<pc, args, pre, ret>> /\ SessionSame /\ GenSame

\* the innermost invocation has visited every neighbour and returns
RevealReturn ==
    /\ pc = "running"
    /\ Top(stack).i > Len(Top(stack).neighbors)
    /\ stack' = Return(board, stack).stack
    /\ pc' = IF Len(stack) = 1 THEN "done" ELSE "running"
    /\ steps' = steps + 1
    /\ UNCHANGED <<board, args, pre, ret>> /\ SessionSame /\ GenSame

NextRevealSteps == RevealCall \/ RevealVisit \/ RevealReturn

SpecRevealSteps == InitRevealSteps /\ [][NextRevealSteps]_vars

(***************************************************************************)
(* SpecGen: generateBoard run as its loop runs, twice on the same           *)
(* arguments.                                                               *)
(***************************************************************************)
MaxSeedLen == 2   \* longest seed string

\* char codes of the seed strings: "-", "1", "a"
SeedChars == {45, 49, 97}

Seeds == UNION {[1 .. n -> SeedChars] : n \in 0 .. MaxSeedLen}

MaxDraws == 200   \* iterations of the placement loop followed in one call

\* mine counts from none to one more than the board has cells
InitGen ==
    /\ \E d \in Dims : \E m \in 0 .. d[1] * d[2] + 1 : \E seed \in Seeds :
         args = [op |-> "generateBoard", rows |-> d[1], cols |-> d[2],
                 mines |-> m, seed |-> seed, call |-> 0]
    /\ board = NoBoard /\ pre = NoBoard /\ ret = "none"
    /\ pc = "input" /\ stack = <<>> /\ steps = 0
    /\ SessionIdle /\ GenIdle

\* the call, up to the while loop: the generator and the empty board
GenCall ==
    /\ pc \in {"input", "returned"}
    /\ args.call < 2
    /\ args' = [args EXCEPT !.call = @ + 1]
    /\ rng' = createSeededGenerator(args.seed)
    /\ board' = EmptyBoard(args.rows, args.cols)
    /\ minesPlaced' = 0
    /\ pre' = board
    /\ pc' = "placing"
    /\ steps' = 0
    /\ UNCHANGED <<ret, stack>> /\ SessionSame

\* one iteration of the while loop
GenPlace ==
    /\ pc = "placing"
    /\ steps < MaxDraws
    /\ MinesToPlace(board, minesPlaced, args.mines)
    /\ LET n == PlaceMineStep(board, rng, minesPlaced)
       IN /\ board' = n.board
          /\ rng' = n.rng
          /\ minesPlaced' = n.minesPlaced
    /\ steps' = steps + 1
    /\ UNCHANGED <<pc, args, pre, ret, stack>> /\ SessionSame

\* the loop condition fails and the board is returned
GenReturn ==
    /\ pc = "placing"
    /\ ~MinesToPlace(board, minesPlaced, args.mines)
    /\ pc' = "returned"
    /\ ret' = "board"
    /\ UNCHANGED <<board, args, pre, rng, minesPlaced, stack, steps>>
    /\ SessionSame

NextGen == GenCall \/ GenPlace \/ GenReturn

SpecGen == InitGen /\ [][NextGen]_vars

\* the loop run step by step ends with the board the operator computes
GenAgreesWithGenerateBoard ==
    pc = "returned" =>
        board = generateBoard(args.rows, args.cols, args.mines, args.seed)

(***************************************************************************)
(* Properties of ensureFirstClickSafety (SpecSafety)                        *)
(***************************************************************************)
MinesIn(b, S) == {q \in S : b.cell[q].isMine}

\* u: the mines inside the clipped 3 x 3 block of the click, before the call
UnsafeMines == MinesIn(pre, Block(pre, args.row, args.col))

\* s: the mine-free cells outside the block, before the call
SafeFree == (Cells(pre) \ Block(pre, args.row, args.col)) \ Mines(pre)

EnsureDone == pc = "ensureFirstClickSafety"

C3_MineCountConserved ==
    EnsureDone => Cardinality(Mines(board)) = Cardinality(Mines(pre))

\* a relocation that ran out of destinations: some mines moved, some stayed
C3_Witness ==
    /\ EnsureDone
    /\ Mines(board) # Mines(pre)
    /\ MinesIn(board, Block(board, args.row, args.col)) # {}
    /\ Cardinality(Mines(board)) = Cardinality(Mines(pre))

\* the place of a position in the row-major order of the board before the call
Rank(p) == p[1] * pre.cols + p[2]

\* the k positions of T that come first in row-major order (all of T when
\* it has at most k)
FirstInOrder(T, k) ==
    {p \in T : Cardinality({q \in T : Rank(q) < Rank(p)}) < k}

\* the call relocated: the block of the click held a mine
Relocated == EnsureDone /\ UnsafeMines # {}

C30_SafeClickUnchanged ==
    (EnsureDone /\ ~pre.cell[<<args.row, args.col>>].isMine
        /\ \A q \in Around(pre, args.row, args.col) : ~pre.cell[q].isMine)
        => board = pre

\* a safe click on a board with mines elsewhere whose counts were never
\* computed: a recount would have changed it
C30_Witness ==
    /\ EnsureDone
    /\ UnsafeMines = {}
    /\ Mines(pre) # {}
    /\ calculateNumbers(pre) # pre
    /\ board = pre

Abs(x) == IF x < 0 THEN -x ELSE x

\* the Chebyshev distance of two positions
Chebyshev(p, q) ==
    IF Abs(p[1] - q[1]) >= Abs(p[2] - q[2])
    THEN Abs(p[1] - q[1]) ELSE Abs(p[2] - q[2])

CountDone == pc \in {"calculateNumbers", "calculateNumbers2", "recount"}

\* C24: after calculateNumbers every mine-free cell's neighborMines is the
\* number of mines among the in-bounds cells at Chebyshev distance 1, and
\* nothing else has changed: mine cells keep their neighborMines, and every
\* cell its isMine, isRevealed and isFlagged.
C24_CountsNeighbourMines ==
    CountDone =>
        /\ board.rows = pre.rows /\ board.cols = pre.cols
        /\ \A p \in Cells(pre) :
             IF pre.cell[p].isMine THEN board.cell[p] = pre.cell[p]
             ELSE board.cell[p] =
                    [pre.cell[p] EXCEPT !.neighborMines =
                        Cardinality({q \in Mines(pre) : Chebyshev(p, q) = 1})]

\* a first count on a board with a flagged and a revealed cell that gave an
\* interior cell the count 8
C24_Witness ==
    /\ pc = "calculateNumbers"
    /\ board # pre
    /\ Flagged(board) # {} /\ Revealed(board) # {}
    /\ \E p \in Cells(board) : board.cell[p].neighborMines = 8

\* C40: calculateNumbers is idempotent, and the counts it writes depend on
\* the mine placement only: a second application to its own result changes
\* no field of any cell, and after any application the count of a
\* mine-free cell is the one computed on the bare board with the same
\* mines (no flag, no revealed cell, all counts 0).
C40_CountIdempotent ==
    /\ pc = "calculateNumbers2" => board = pre
    /\ CountDone =>
         LET bare == calculateNumbers(
                         MakeBoard(<<board.rows, board.cols>>, Mines(board),
                                   {}, {}, FALSE))
         IN \A p \in Cells(board) \ Mines(board) :
                board.cell[p].neighborMines = bare.cell[p].neighborMines

\* a second application on a counted board with mines, a flag and a
\* revealed cell
C40_Witness ==
    /\ pc = "calculateNumbers2"
    /\ board = pre
    /\ Cardinality(Mines(board)) >= 2
    /\ Flagged(board) # {} /\ Revealed(board) # {}
    /\ \E p \in Cells(board) \ Mines(board) : board.cell[p].neighborMines >= 2

\* C27 (for ensureFirstClickSafety): a call with (row, col) outside the
\* board raises nothing and has no effect on the board.
C27_OutOfBoundsNoRaise ==
    (args.op = "ensureFirstClickSafety" /\ ~InBounds(pre, args.row, args.col))
        => (pc # "raised" /\ board = pre)

(***************************************************************************)
(* Properties of revealCell and checkWin (SpecReveal)                       *)
(***************************************************************************)
Target == <<args.row, args.col>>

RevealDone == pc = "revealCell"

\* the target could be revealed: in bounds, hidden and unflagged before the call
Revealable ==
    /\ InBounds(pre, args.row, args.col)
    /\ ~pre.cell[Target].isRevealed
    /\ ~pre.cell[Target].isFlagged

Hidden(b, q) == ~b.cell[q].isRevealed /\ ~b.cell[q].isFlagged

Opens(b, x) == ~b.cell[x].isMine /\ b.cell[x].neighborMines = 0

\* the least set holding the cells of S and every hidden unflagged neighbour
\* of a mine-free zero-count cell of the set
RECURSIVE FloodClosure(_, _)
FloodClosure(b, S) ==
    LET more == {q \in Cells(b) :
                   /\ Hidden(b, q)
                   /\ \E x \in S : Opens(b, x) /\ q \in Around(b, x[1], x[2])}
    IN IF more \subseteq S THEN S ELSE FloodClosure(b, S \cup more)

WithRevealed(b, S) ==
    [b EXCEPT !.cell = [p \in Cells(b) |->
        IF p \in S THEN [b.cell[p] EXCEPT !.isRevealed = TRUE] ELSE b.cell[p]]]

\* C6: revealCell on a hidden unflagged mine-free zero-count cell reveals
\* exactly the flood closure of the target and changes nothing else.
C6_RevealsFloodClosure ==
    (RevealDone /\ Revealable /\ Opens(pre, Target)) =>
        board = WithRevealed(pre, FloodClosure(pre, {Target}))

\* a flood that reached numbered border cells and stopped there, leaving a
\* hidden unflagged mine-free cell behind them
C6_Witness ==
    /\ RevealDone /\ Revealable /\ Opens(pre, Target)
    /\ \E q \in Revealed(board) \ Revealed(pre) :
         /\ board.cell[q].neighborMines > 0
         /\ \E h \in Around(board, q[1], q[2]) :
              Hidden(board, h) /\ ~board.cell[h].isMine
    /\ \E f \in Flagged(board) :
         \E x \in Around(board, f[1], f[2]) :
              x \in Revealed(board) \ Revealed(pre) /\ Opens(board, x)

\* the neighborMines of every mine-free cell of b is its number of mine
\* neighbours
CorrectCounts(b) ==
    \A p \in Cells(b) \ Mines(b) :
        b.cell[p].neighborMines = Cardinality(MinesIn(b, Around(b, p[1], p[2])))

\* the mines a call has revealed
MinesUncovered == (Mines(board) \cap Revealed(board)) \ Revealed(pre)

\* C36: on a board with correct neighborMines, revealCell on a mine-free
\* cell reveals no mine, whatever the flags and the revealed cells; a mine
\* becomes revealed only as the target of revealCell or by revealAllMines
\* (checkWin and checkLoss reveal nothing).
C36_FloodRevealsNoMine ==
    /\ (RevealDone /\ CorrectCounts(pre)) =>
            MinesUncovered \subseteq ({Target} \cap Mines(pre))
    /\ pc \in {"checkWin", "checkLoss"} => Revealed(board) = Revealed(pre)

\* a flood from a zero-count cell on a board with two mines and a flag that
\* revealed numbered cells next to a mine and left every mine hidden
C36_Witness ==
    /\ RevealDone /\ CorrectCounts(pre) /\ Revealable /\ Opens(pre, Target)
    /\ Cardinality(Mines(pre)) >= 2 /\ Flagged(pre) # {}
    /\ MinesUncovered = {}
    /\ \E q \in Revealed(board) \ Revealed(pre) :
         MinesIn(board, Around(board, q[1], q[2])) # {}

\* C38: on a board with the difficulty's dimensions the revealCell of
\* useGameState reveals, while the status is playing, exactly the cells
\* gameLogic.revealCell reveals on the same board and target, and changes
\* nothing else; with another status it reveals nothing.
C38_OwnRevealAgrees ==
    pc = "revealed" =>
        /\ status = "playing" => board = revealCell(pre, args.row, args.col)
        /\ status # "playing" => board = pre

\* a playing session whose revealCell flooded from a zero-count cell past a
\* flag up to numbered cells
C38_Witness ==
    /\ pc = "revealed" /\ status = "playing"
    /\ Revealable /\ Opens(pre, Target)
    /\ Mines(pre) # {} /\ Flagged(pre) # {}
    /\ Cardinality(Revealed(board) \ Revealed(pre)) >= 3
    /\ \E q \in Revealed(board) \ Revealed(pre) : board.cell[q].neighborMines > 0
    /\ \E q \in Cells(board) : Hidden(board, q)

\* C7: revealCell changes nothing when the target is out of bounds, flagged
\* or already revealed; a second call on the same target changes nothing.
C7_RevealNoOp ==
    /\ (RevealDone /\ ~Revealable) => board = pre
    /\ pc = "revealCell2" => board = pre

\* a flagged zero-count target with hidden neighbours a reveal would open
C7_Witness ==
    /\ RevealDone
    /\ InBounds(pre, args.row, args.col)
    /\ pre.cell[Target].isFlagged /\ ~pre.cell[Target].isRevealed
    /\ Opens(pre, Target)
    /\ \E q \in Around(pre, args.row, args.col) : Hidden(pre, q)
    /\ board = pre

\* C8: revealCell on a hidden unflagged cell that is a mine or has a
\* positive count reveals that one cell and changes nothing else.
C8_RevealsOneCell ==
    (RevealDone /\ Revealable /\ ~Opens(pre, Target)) =>
        board = SetRevealed(pre, Target)

\* a numbered target with hidden unflagged neighbours left hidden
C8_Witness ==
    /\ RevealDone /\ Revealable
    /\ ~pre.cell[Target].isMine /\ pre.cell[Target].neighborMines > 0
    /\ \E q \in Around(pre, args.row, args.col) : Hidden(board, q)
    /\ board.cell[Target].isRevealed

\* C10 as stated: with totalMines the number of mine cells, checkWin is true
\* exactly when every mine-free cell is revealed.
C10_WinIffAllSafeRevealed ==
    (pc = "checkWin" /\ args.totalMines = Cardinality(Mines(board))) =>
        (ret <=> \A p \in Cells(board) :
                    ~board.cell[p].isMine => board.cell[p].isRevealed)

\* C11: checkLoss is true exactly when some cell is a mine and revealed, and
\* false on a board with no revealed cell.
C11_LossIffMineRevealed ==
    pc = "checkLoss" =>
        /\ ret <=> (\E p \in Cells(board) :
                      board.cell[p].isMine /\ board.cell[p].isRevealed)
        /\ Revealed(board) = {} => ~ret

\* a loss found past the first row, on a board that also has a hidden mine
\* and a revealed mine-free cell
C11_Witness ==
    /\ pc = "checkLoss" /\ ret
    /\ \A p \in Mines(board) \cap Revealed(board) : p[1] > 0
    /\ Mines(board) \ Revealed(board) # {}
    /\ Revealed(board) \ Mines(board) # {}

\* C28: revealAllMines sets isRevealed on every mine cell and changes
\* nothing else: mine-free cells keep their isRevealed, and every cell its
\* isMine, isFlagged and neighborMines.
C28_RevealsMinesOnly ==
    pc = "revealAllMines" =>
        /\ board.rows = pre.rows /\ board.cols = pre.cols
        /\ \A p \in Cells(pre) :
             /\ board.cell[p].isRevealed =
                    (pre.cell[p].isMine \/ pre.cell[p].isRevealed)
             /\ board.cell[p].isMine = pre.cell[p].isMine
             /\ board.cell[p].isFlagged = pre.cell[p].isFlagged
             /\ board.cell[p].neighborMines = pre.cell[p].neighborMines
             /\ board.cell[p].row = pre.cell[p].row
             /\ board.cell[p].col = pre.cell[p].col

\* a flagged mine revealed, next to a mine-free cell left hidden and one
\* left revealed
C28_Witness ==
    /\ pc = "revealAllMines"
    /\ \E m \in Mines(pre) \cap Flagged(pre) :
         ~pre.cell[m].isRevealed /\ board.cell[m].isRevealed
    /\ \E q \in Cells(pre) \ Mines(pre) : ~board.cell[q].isRevealed
    /\ \E q \in Cells(pre) \ Mines(pre) : board.cell[q].isRevealed

(***************************************************************************)
(* Termination of revealCell (SpecRevealSteps)                              *)
(***************************************************************************)
\* C9: revealCell terminates: every invocation on the stack belongs to a
\* different cell that it marked revealed, so the stack is never deeper than
\* the board has cells, the number of steps is bounded by the number of
\* cells, and a run that has not returned can always take its next step.
C9_RevealTerminates ==
    pc \in {"running", "done"} =>
        /\ \A i \in 1 .. Len(stack) :
             /\ board.cell[<<stack[i].row, stack[i].col>>].isRevealed
             /\ ~pre.cell[<<stack[i].row, stack[i].col>>].isRevealed
             /\ \A j \in 1 .. Len(stack) :
                  (stack[i].row = stack[j].row /\ stack[i].col = stack[j].col)
                      => i = j
        /\ Len(stack) <= board.rows * board.cols
        /\ steps <= 1 + 9 * Cardinality(Revealed(board) \ Revealed(pre))
        /\ pc = "running" => ENABLED (RevealVisit \/ RevealReturn)

\* a flood over the whole board that has returned
C9_Witness ==
    /\ pc = "done"
    /\ board.rows * board.cols >= 6
    /\ Cardinality(Revealed(board) \ Revealed(pre)) = board.rows * board.cols
    /\ stack = <<>>

(***************************************************************************)
(* Properties of canChord and chord (SpecChord)                             *)
(***************************************************************************)
\* the number of flagged cells among the in-bounds cells around the target
FlaggedAround == Cardinality(Around(pre, args.row, args.col) \cap Flagged(pre))

\* the target is in bounds, revealed, numbered, and carries as many flags
\* around it as its number says
Chordable ==
    /\ InBounds(pre, args.row, args.col)
    /\ pre.cell[Target].isRevealed
    /\ pre.cell[Target].neighborMines > 0
    /\ FlaggedAround = pre.cell[Target].neighborMines

\* C21: canChord is true exactly when the target is in bounds, revealed, has
\* neighborMines > 0, and has exactly neighborMines flagged neighbours.
C21_CanChordIff == pc = "canChord" => (ret <=> Chordable)

\* an eligible chord whose flag lies on a mine-free cell
C21_Witness ==
    /\ pc = "canChord" /\ ret
    /\ pre.cell[Target].neighborMines = 1
    /\ \E f \in Around(pre, args.row, args.col) \cap Flagged(pre) :
         ~pre.cell[f].isMine

\* C22: chord returns the empty sequence when canChord is false, and
\* otherwise exactly the in-bounds neighbours of the target that are neither
\* flagged nor revealed, each once.
C22_ChordCandidates ==
    pc = "chord" =>
        IF ~Chordable THEN ret = <<>>
        ELSE /\ {ret[i] : i \in 1 .. Len(ret)} =
                    {q \in Around(pre, args.row, args.col) : Hidden(pre, q)}
             /\ \A i, j \in 1 .. Len(ret) : ret[i] = ret[j] => i = j

\* a chord that returned cells and left out a revealed and a flagged neighbour
C22_Witness ==
    /\ pc = "chord" /\ Len(ret) >= 2
    /\ Around(pre, args.row, args.col) \cap Revealed(pre) # {}
    /\ Around(pre, args.row, args.col) \cap Flagged(pre) # {}

C33_AcceptedLeavesFreeCell ==
    (pc = "validated" /\ ret) =>
        /\ args.mines < args.rows * args.cols
        /\ \A placed \in 0 .. args.mines - 1 : args.rows * args.cols - placed > 0

\* the densest difficulty accepted on the smallest board: one free cell
C33_Witness ==
    /\ pc = "validated" /\ ret
    /\ args.rows = minSize /\ args.cols = minSize
    /\ args.mines = args.rows * args.cols - 1

\* C34: on integers the validator of GameControls is strictly stricter
\* than validateCustomDifficulty: it accepts a triple exactly when the core
\* validator accepts it, rows and cols are at most 30 and mines is at most
\* floor(0.85 * rows * cols); so all it accepts the core one accepts, and
\* the core one accepts triples it rejects.
C34_ControlsStricter ==
    pc = "compared" =>
        /\ args.valid => ret
        /\ args.valid <=> (/\ ret
                           /\ args.rows <= 30 /\ args.cols <= 30
                           /\ 100 * args.mines <= 85 * args.rows * args.cols)

\* a difficulty within the sizes of GameControls, denser than 85%, that the
\* core validator accepts and GameControls rejects
C34_Witness ==
    /\ pc = "compared"
    /\ ret /\ ~args.valid
    /\ args.rows = 30 /\ args.cols = 30
    /\ args.mines = 766

(***************************************************************************)
(* Properties of getNeighbors (SpecNeighbors)                               *)
(***************************************************************************)
\* the target lies on the first or last row, on the first or last column
OnRowEdge == args.row \in {0, pre.rows - 1}

OnColEdge == args.col \in {0, pre.cols - 1}

\* C26: for an in-bounds (row, col), getNeighbors returns exactly the
\* in-bounds cells at Chebyshev distance 1, never the cell itself, each
\* once: 3 at a corner and 5 on an edge of a board at least 2x2, 8 in the
\* interior.
C26_NeighboursAtDistanceOne ==
    (pc = "getNeighbors" /\ InBounds(pre, args.row, args.col)) =>
        /\ {ret[i] : i \in 1 .. Len(ret)} =
               {q \in Cells(pre) : Chebyshev(q, Target) = 1}
        /\ \A i \in 1 .. Len(ret) : ret[i] # Target
        /\ \A i, j \in 1 .. Len(ret) : ret[i] = ret[j] => i = j
        /\ (pre.rows >= 2 /\ pre.cols >= 2) =>
              Len(ret) = IF OnRowEdge /\ OnColEdge THEN 3
                         ELSE IF OnRowEdge \/ OnColEdge THEN 5
                         ELSE 8

\* the eight neighbours of an interior cell
C26_Witness ==
    /\ pc = "getNeighbors" /\ InBounds(pre, args.row, args.col)
    /\ ~OnRowEdge /\ ~OnColEdge
    /\ Len(ret) = 8

(***************************************************************************)
(* Properties of generateBoard (SpecGen)                                    *)
(***************************************************************************)
\* C4: generateBoard returns a rows x cols board with exactly mineCount
\* mines whose cells are unrevealed, unflagged, have neighborMines 0 and
\* carry their own row and col.
C4_GeneratedBoard ==
    pc = "returned" =>
        /\ board.rows = args.rows /\ board.cols = args.cols
        /\ Cells(board) = Pos(args.rows, args.cols)
        /\ Cardinality(Mines(board)) = args.mines
        /\ \A p \in Cells(board) :
             /\ board.cell[p].row = p[1] /\ board.cell[p].col = p[2]
             /\ ~board.cell[p].isRevealed /\ ~board.cell[p].isFlagged
             /\ board.cell[p].neighborMines = 0

\* a returned board that needed more draws than it has mines
C4_Witness ==
    /\ pc = "returned"
    /\ args.mines >= 2
    /\ steps > args.mines
    /\ Cardinality(Mines(board)) = args.mines

C32_NeverReturnsAtCapacity ==
    args.mines >= args.rows * args.cols => pc # "returned"

\* C32 amended: with mineCount > rows * cols the condition of the placement
\* loop holds at every iteration, so the loop never terminates and the call
\* never returns (with mineCount = rows * cols it can return, with a board
\* that is all mines).
C32_NeverReturnsOverCapacity ==
    args.mines > args.rows * args.cols =>
        /\ pc # "returned"
        /\ pc = "placing" =>
             /\ minesPlaced = Cardinality(Mines(board))
             /\ minesPlaced < args.mines

\* the loop still drawing on a board that has been all mines for a while
C32_Witness ==
    /\ pc = "placing"
    /\ args.mines > args.rows * args.cols
    /\ args.rows * args.cols >= 4
    /\ Mines(board) = Cells(board)
    /\ steps >= 4 * args.mines

(***************************************************************************)
(* The game session: useGameState and the handlers of App.vue.  A session   *)
(* value g gathers gameState, difficulty and the timer handle; ended counts *)
(* the endGame calls of the current game.                                   *)
(***************************************************************************)
Session ==
    [board |-> board, status |-> status, timer |-> timer, flags |-> flags,
     firstClick |-> firstClick, difficulty |-> difficulty,
     timerInterval |-> timerInterval, ended |-> ended]

createBoard(rows, cols) == EmptyBoard(rows, cols)

\* a newGame that keeps the flag counter and the firstClick mark
newGame_keep(g, newDifficulty) ==
    [g EXCEPT !.difficulty = newDifficulty,
              !.board = createBoard(newDifficulty.rows, newDifficulty.cols),
              !.status = "initial",
              !.timer = 0]

newGame(g, newDifficulty) ==
    [g EXCEPT !.difficulty = newDifficulty,
              !.board = createBoard(newDifficulty.rows, newDifficulty.cols),
              !.status = "initial",
              !.timer = 0,
              !.flags = 0,
              !.firstClick = TRUE]

\* a startGame that also restarts the clock
startGame_reset(g) == [g EXCEPT !.status = "playing", !.timer = 0]

startGame(g) ==
    IF g.status # "playing" THEN [g EXCEPT !.status = "playing"] ELSE g

\* an endGame that leaves the status as it is
endGame_keep(g, result) == [g EXCEPT !.ended = @ + 1]

endGame(g, result) == [g EXCEPT !.status = result, !.ended = @ + 1]

isValidCell(g, row, col) ==
    IF g.difficulty = NoDifficulty THEN FALSE
    ELSE row >= 0 /\ row < g.difficulty.rows /\ col >= 0 /\ col < g.difficulty.cols

\* a flagCell that counts every toggle as a flag placed
flagCell_count(g, row, col) ==
    IF ~isValidCell(g, row, col) THEN g
    ELSE IF g.board.cell[<<row, col>>].isRevealed THEN g
    ELSE [g EXCEPT !.board.cell[<<row, col>>].isFlagged = ~@,
                   !.flags = @ + 1]

flagCell(g, row, col) ==
    IF ~isValidCell(g, row, col) THEN g
    ELSE IF g.board.cell[<<row, col>>].isRevealed THEN g
    ELSE LET nowFlagged == ~g.board.cell[<<row, col>>].isFlagged
         IN [g EXCEPT !.board.cell[<<row, col>>].isFlagged = nowFlagged,
                      !.flags = @ + (IF nowFlagged THEN 1 ELSE -1)]

startTimer(g) == [g EXCEPT !.timerInterval = "set"]

stopTimer(g) == [g EXCEPT !.timerInterval = "null"]

\* an initializeBoard that leaves the firstClick mark set
initializeBoard_again(g, firstRow, firstCol, seed) ==
    IF g.difficulty = NoDifficulty THEN g
    ELSE [g EXCEPT
            !.board = ensureFirstClickSafety(
                          calculateNumbers(
                              generateBoard(g.difficulty.rows, g.difficulty.cols,
                                            g.difficulty.mines, seed)),
                          firstRow, firstCol)]

\* the seed is `${Date.now()}-${Math.random()}`: some string
initializeBoard(g, firstRow, firstCol, seed) ==
    IF g.difficulty = NoDifficulty THEN g
    ELSE [g EXCEPT
            !.board = ensureFirstClickSafety(
                          calculateNumbers(
                              generateBoard(g.difficulty.rows, g.difficulty.cols,
                                            g.difficulty.mines, seed)),
                          firstRow, firstCol),
            !.firstClick = FALSE]

handleNewGame(g, newDifficulty) == newGame(stopTimer(g), newDifficulty)

\* the four parts of the handler in turn: the board is initialised on the
\* first click, the game and its timer are started, the cell is revealed,
\* and the loss and win tests are applied
handleCellRevealed(g, row, col, seed) ==
    LET Check(g3) ==
            IF checkLoss(g3.board)
            THEN stopTimer(endGame([g3 EXCEPT !.board = revealAllMines(g3.board)],
                                   "lost"))
            ELSE IF checkWin(g3.board, g3.difficulty.mines)
                 THEN stopTimer(endGame(g3, "won"))
                 ELSE g3
        Reveal(g2) == Check([g2 EXCEPT !.board = revealCell(g2.board, row, col)])
        Start(g1) ==
            Reveal(IF g1.status # "playing" THEN startTimer(startGame(g1)) ELSE g1)
    IN Start(IF g.firstClick THEN initializeBoard(g, row, col, seed) ELSE g)

handleCellFlagged(g, row, col) == flagCell(g, row, col)

\* the for loop of handleChord over the cells chord returned, from index i on
RECURSIVE ChordEach(_, _, _, _)
ChordEach(g, cellsToReveal, i, seed) ==
    IF i > Len(cellsToReveal) THEN g
    ELSE LET cell == g.board.cell[cellsToReveal[i]]
         IN ChordEach(handleCellRevealed(g, cell.row, cell.col, seed),
                      cellsToReveal, i + 1, seed)

\* a handleChord that reveals the first of the cells chord returned only
handleChord_first(g, row, col, seed) ==
    LET cellsToReveal == chord(g.board, row, col)
    IN ChordEach(g, SubSeq(cellsToReveal, 1, Min(1, Len(cellsToReveal))), 1, seed)

handleChord(g, row, col, seed) ==
    ChordEach(g, chord(g.board, row, col), 1, seed)

(***************************************************************************)
(* SpecSession: the application driven by the events of GameBoard.vue.      *)
(***************************************************************************)
MaxMoves == 3    \* events (clicks, timer ticks) handled by the session

MaxGames == 2    \* newGame calls

MaxTimer == 1    \* largest value of the displayed timer

ClickSide == 3   \* the pointer acts on the cells of the first ClickSide rows and columns

\* mine counts tried on the smallest board: sparse, and the most the
\* difficulty form of GameControls allows (85% of the cells)
SessionMineCounts == {3, 21}

\* custom difficulties of the smallest board size the validator accepts
SessionDifficulties ==
    {d \in [name : {"custom"}, rows : {minSize}, cols : {minSize},
            mines : SessionMineCounts] :
        validateCustomDifficulty(d.rows, d.cols, d.mines)}

SessionSeeds == {<<>>, <<49>>}

Reach(b) == {p \in Cells(b) : p[1] < ClickSide /\ p[2] < ClickSide}

InitSession ==
    /\ board = NoBoard /\ status = "" /\ timer = 0 /\ flags = 0
    /\ firstClick = TRUE /\ difficulty = NoDifficulty /\ timerInterval = "null"
    /\ moves = 0 /\ games = 0 /\ ended = 0
    /\ pc = "idle" /\ args = NoArgs /\ pre = NoBoard /\ ret = "none"
    /\ stack = <<>> /\ steps = 0
    /\ GenIdle

\* the session variables take the values of g
Install(g) ==
    /\ board' = g.board /\ status' = g.status /\ timer' = g.timer
    /\ flags' = g.flags /\ firstClick' = g.firstClick
    /\ difficulty' = g.difficulty /\ timerInterval' = g.timerInterval
    /\ ended' = g.ended

Handled == UNCHANGED <<pc, ret, stack, steps>> /\ GenSame

\* the new-game event of GameControls, and the one onMounted raises; was
\* keeps the status, flag counter and firstClick mark the call found
NewGame ==
    /\ games < MaxGames
    /\ \E d \in SessionDifficulties :
         /\ Install([handleNewGame(Session, d) EXCEPT !.ended = 0])
         /\ args' = [op |-> "handleNewGame", difficulty |-> d,
                     was |-> [status |-> status, flags |-> flags,
                              firstClick |-> firstClick]]
    /\ games' = games + 1
    /\ pre' = NoBoard
    /\ UNCHANGED moves
    /\ Handled

\* handleCellClick of GameBoard.vue, which emits cell-revealed
CellClick ==
    /\ moves < MaxMoves
    /\ status \in {"playing", "initial"}
    /\ \E p \in Reach(board) : \E seed \in SessionSeeds :
         /\ ~(board.cell[p].isRevealed \/ board.cell[p].isFlagged)
         /\ Install(handleCellRevealed(Session, p[1], p[2], seed))
         /\ args' = [op |-> "handleCellRevealed", row |-> p[1], col |-> p[2],
                     first |-> firstClick]
    /\ moves' = moves + 1
    /\ pre' = board
    /\ UNCHANGED games
    /\ Handled

\* handleCellRightClick of GameBoard.vue, which emits cell-flagged
CellRightClick ==
    /\ moves < MaxMoves
    /\ status \in {"playing", "initial"}
    /\ \E p \in Reach(board) :
         /\ ~board.cell[p].isRevealed
         /\ Install(handleCellFlagged(Session, p[1], p[2]))
         /\ args' = [op |-> "handleCellFlagged", row |-> p[1], col |-> p[2]]
    /\ moves' = moves + 1
    /\ pre' = board
    /\ UNCHANGED games
    /\ Handled

\* handleCellDoubleClick of GameBoard.vue, which emits chord-triggered
CellDoubleClick ==
    /\ moves < MaxMoves
    /\ status = "playing"
    /\ \E p \in Reach(board) : \E seed \in SessionSeeds :
         /\ board.cell[p].isRevealed
         /\ canChord(board, p[1], p[2])
         /\ Install(handleChord(Session, p[1], p[2], seed))
         /\ args' = [op |-> "handleChord", row |-> p[1], col |-> p[2]]
    /\ moves' = moves + 1
    /\ pre' = board
    /\ UNCHANGED games
    /\ Handled

\* the interval callback of startTimer: the whole seconds elapsed since the
\* timer was started, which only grow (a tick that finds the same second
\* changes nothing)
TimerTick ==
    /\ moves < MaxMoves
    /\ timerInterval = "set"
    /\ \E elapsedTime \in (timer + 1) .. MaxTimer :
         timer' = elapsedTime
    /\ moves' = moves + 1
    /\ UNCHANGED <<board, status, flags, firstClick, difficulty, timerInterval,
                   ended, games, args, pre>>
    /\ Handled

NextSession ==
    NewGame \/ CellClick \/ CellRightClick \/ CellDoubleClick \/ TimerTick

SpecSession == InitSession /\ [][NextSession]_vars

(***************************************************************************)
(* SpecState: the operations useGameState returns, called in any order on   *)
(* the state useGameState creates.                                          *)
(***************************************************************************)
updateTimer(g) == [g EXCEPT !.timer = @ + 1]

\* a revealNeighbors that stops at the first neighbour it reveals
RECURSIVE RevealNeighbors_one(_, _, _, _)
RevealNeighbors_one(g, row, col, i) ==
    IF i > Len(Directions) THEN g
    ELSE LET newRow == row + Directions[i][1]
             newCol == col + Directions[i][2]
         IN IF /\ isValidCell(g, newRow, newCol)
               /\ ~g.board.cell[<<newRow, newCol>>].isRevealed
               /\ ~g.board.cell[<<newRow, newCol>>].isFlagged
            THEN [g EXCEPT !.board.cell[<<newRow, newCol>>].isRevealed = TRUE]
            ELSE RevealNeighbors_one(g, row, col, i + 1)

\* revealCell and revealNeighbors of useGameState, which call each other;
\* RevealNeighbors is the for loop of revealNeighbors from direction i on
RECURSIVE useGameState_revealCell(_, _, _), RevealNeighbors(_, _, _, _)
useGameState_revealCell(g, row, col) ==
    IF ~isValidCell(g, row, col) THEN g
    ELSE IF \/ g.board.cell[<<row, col>>].isRevealed
            \/ g.board.cell[<<row, col>>].isFlagged
            \/ g.status # "playing" THEN g
    ELSE IF /\ g.board.cell[<<row, col>>].neighborMines = 0
            /\ ~g.board.cell[<<row, col>>].isMine
         THEN RevealNeighbors(
                  [g EXCEPT !.board.cell[<<row, col>>].isRevealed = TRUE],
                  row, col, 1)
         ELSE [g EXCEPT !.board.cell[<<row, col>>].isRevealed = TRUE]

RevealNeighbors(g, row, col, i) ==
    IF i > Len(Directions) THEN g
    ELSE LET newRow == row + Directions[i][1]
             newCol == col + Directions[i][2]
             Next(g1) == RevealNeighbors(g1, row, col, i + 1)
         IN IF isValidCell(g, newRow, newCol)
            THEN IF /\ ~g.board.cell[<<newRow, newCol>>].isRevealed
                    /\ ~g.board.cell[<<newRow, newCol>>].isFlagged
                 THEN Next(useGameState_revealCell(g, newRow, newCol))
                 ELSE Next(g)
            ELSE Next(g)

(***************************************************************************)
(* SpecOwnReveal: the revealCell of useGameState applied to a session whose *)
(* board (gameState is handed out as a ref) holds mines, flags and revealed *)
(* cells and has the dimensions of the difficulty.                          *)
(***************************************************************************)
OwnStatuses == {"initial", "playing", "won", "lost"}

InitOwnReveal ==
    /\ \E d \in Dims :
       \E M \in SubsetsUpTo(Pos(d[1], d[2]), MaxMarks) :
       \E F \in SubsetsUpTo(Pos(d[1], d[2]), MaxMarks - Cardinality(M)) :
       \E R \in SubsetsUpTo(Pos(d[1], d[2]),
                            MaxMarks - Cardinality(M) - Cardinality(F)) :
       \E counted \in BOOLEAN :
         /\ board = MakeBoard(d, M, F, R, counted)
         /\ difficulty = [name |-> "custom", rows |-> d[1], cols |-> d[2],
                          mines |-> Cardinality(M)]
    /\ status \in OwnStatuses
    /\ timer = 0 /\ flags = 0 /\ firstClick = FALSE /\ timerInterval = "null"
    /\ moves = 0 /\ games = 0 /\ ended = 0
    /\ pc = "input" /\ args = NoArgs /\ pre = NoBoard /\ ret = "none"
    /\ stack = <<>> /\ steps = 0
    /\ GenIdle

\* revealCell(row, col) of useGameState
OwnRevealCell ==
    /\ pc = "input"
    /\ \E t \in Targets(board) :
         /\ Install(useGameState_revealCell(Session, t[1], t[2]))
         /\ args' = [op |-> "useGameState.revealCell", row |-> t[1], col |-> t[2]]
    /\ pre' = board
    /\ pc' = "revealed"
    /\ UNCHANGED <<ret, stack, steps, moves, games>> /\ GenSame

NextOwnReveal == OwnRevealCell

SpecOwnReveal == InitOwnReveal /\ [][NextOwnReveal]_vars

MaxOps == 4      \* calls of startGame, endGame, flagCell, revealCell, updateTimer

StateSide == 2   \* largest number of rows and of columns of a difficulty

StateDifficulties ==
    [name : {"custom"}, rows : 1 .. StateSide, cols : 1 .. StateSide,
     mines : {1}]

\* the cells an operation is called on: those of the largest board, and one
\* position before the first row and column
StateCells == (-1 .. StateSide - 1) \X (-1 .. StateSide - 1)

\* the session when the operation was called
NoSession == [status |-> "none"]

InitState ==
    /\ board = NoBoard /\ status = "" /\ timer = 0 /\ flags = 0
    /\ firstClick = TRUE /\ difficulty = NoDifficulty /\ timerInterval = "null"
    /\ moves = 0 /\ games = 0 /\ ended = 0
    /\ pc = "idle" /\ args = NoArgs /\ pre = NoSession /\ ret = "none"
    /\ stack = <<>> /\ steps = 0
    /\ GenIdle

\* an operation other than newGame was called
Called == moves < MaxOps /\ moves' = moves + 1 /\ pre' = Session
          /\ UNCHANGED games /\ Handled

StateNewGame ==
    /\ games < MaxGames
    /\ \E d \in StateDifficulties :
         /\ Install([newGame(Session, d) EXCEPT !.ended = 0])
         /\ args' = [op |-> "newGame", difficulty |-> d]
    /\ games' = games + 1
    /\ pre' = Session
    /\ UNCHANGED moves
    /\ Handled

StateStartGame ==
    /\ Install(startGame(Session))
    /\ args' = [op |-> "startGame"]
    /\ Called

StateEndGame ==
    /\ \E result \in {"won", "lost"} :
         /\ Install(endGame(Session, result))
         /\ args' = [op |-> "endGame", result |-> result]
    /\ Called

StateFlagCell ==
    /\ \E p \in StateCells :
         /\ Install(flagCell(Session, p[1], p[2]))
         /\ args' = [op |-> "flagCell", row |-> p[1], col |-> p[2]]
    /\ Called

StateRevealCell ==
    /\ \E p \in StateCells :
         /\ Install(useGameState_revealCell(Session, p[1], p[2]))
         /\ args' = [op |-> "revealCell", row |-> p[1], col |-> p[2]]
    /\ Called

StateUpdateTimer ==
    /\ timer < MaxTimer
    /\ Install(updateTimer(Session))
    /\ args' = [op |-> "updateTimer"]
    /\ Called

NextState ==
    \/ StateNewGame \/ StateStartGame \/ StateEndGame
    \/ StateFlagCell \/ StateRevealCell \/ StateUpdateTimer

SpecState == InitState /\ [][NextState]_vars

(***************************************************************************)
(* Properties of the session (SpecSession)                                  *)
(***************************************************************************)
\* the last event was the first reveal of a game
FirstRevealDone == args.op = "handleCellRevealed" /\ args.first

\* C1: after the first reveal of a game, whatever the difficulty and the
\* cell clicked, the clicked cell and all its in-bounds neighbours are
\* mine-free and the status is not lost.
C1_FirstRevealSafe ==
    FirstRevealDone =>
        /\ MinesIn(board, Block(board, args.row, args.col)) = {}
        /\ status # "lost"

\* C31: from the first reveal of a game until the next newGame, every
\* mine-free cell's neighborMines is the number of mines among its
\* in-bounds neighbours in the layout the board has, the cells a mine was
\* moved away from and the neighbours of the cells a mine was moved to
\* included.
C31_CountsMatchLayout ==
    (difficulty # NoDifficulty /\ ~firstClick) =>
        \A p \in Cells(board) \ Mines(board) :
            board.cell[p].neighborMines =
                Cardinality({q \in Mines(board) :
                                q # p /\ Abs(q[1] - p[1]) <= 1
                                      /\ Abs(q[2] - p[2]) <= 1})

\* a first reveal whose generated layout had a mine in the block of the
\* click, and which left the block mine-free: mines were moved
C31_Witness ==
    /\ FirstRevealDone
    /\ MinesIn(board, Block(board, args.row, args.col)) = {}
    /\ \E seed \in SessionSeeds :
         LET gen == calculateNumbers(
                        generateBoard(difficulty.rows, difficulty.cols,
                                      difficulty.mines, seed))
         IN /\ MinesIn(gen, Block(gen, args.row, args.col)) # {}
            /\ Mines(board) =
                 Mines(ensureFirstClickSafety(gen, args.row, args.col))
            /\ \E p \in Cells(board) \ Mines(board) :
                 board.cell[p].neighborMines # gen.cell[p].neighborMines

\* C35: between two consecutive newGame calls endGame is invoked at most
\* once, also when the game is won or lost in the middle of a chord that
\* still has cells to reveal.
C35_EndsAtMostOnce == ended <= 1

\* the last event was a completed reveal or chord action
RevealOrChordDone == args.op \in {"handleCellRevealed", "handleChord"}

MineRevealed == Mines(board) \cap Revealed(board) # {}

AllSafeRevealed == Cells(board) \ Mines(board) \subseteq Revealed(board)

\* C12: after every completed reveal or chord action the status agrees with
\* the board: lost iff some mine is revealed, won iff no mine is revealed
\* and every mine-free cell is revealed, playing otherwise.
C12_StatusAgreesWithBoard ==
    RevealOrChordDone =>
        /\ status = "lost" <=> MineRevealed
        /\ status = "won" <=> (~MineRevealed /\ AllSafeRevealed)
        /\ status = "playing" <=> (~MineRevealed /\ ~AllSafeRevealed)

\* a chord that revealed several cells and ended the game
C12_Witness ==
    /\ args.op = "handleChord"
    /\ Cardinality(Revealed(board) \ Revealed(pre)) >= 2
    /\ status \in {"won", "lost"}

\* the last event was a chord: a double click, in a playing session, on a
\* revealed cell for which canChord held
ChordDone == args.op = "handleChord"

\* the flagged neighbours of the chorded cell that are not mines
WrongFlags ==
    {q \in Around(pre, args.row, args.col) :
        pre.cell[q].isFlagged /\ ~pre.cell[q].isMine}

\* C37: a chord triggered in a playing session on a cell for which canChord
\* holds ends the game as lost iff some flagged neighbour of the cell is
\* not a mine; with every adjacent flag on a mine it reveals no mine.
C37_ChordLostIffWrongFlag ==
    ChordDone =>
        /\ status = "lost" <=> WrongFlags # {}
        /\ WrongFlags = {} => ~MineRevealed

\* a chord with its flag on the mine that revealed cells and no mine
C37_Witness ==
    /\ ChordDone
    /\ WrongFlags = {}
    /\ Cardinality(Revealed(board) \ Revealed(pre)) >= 2
    /\ ~MineRevealed /\ status # "lost"

\* C15: from any session state, newGame(difficulty) yields status initial,
\* timer 0, flags 0, firstClick true, the given difficulty, and a board of
\* difficulty.rows x difficulty.cols blank cells.
C15_NewGameResets ==
    args.op = "handleNewGame" =>
        /\ status = "initial" /\ timer = 0 /\ flags = 0 /\ firstClick
        /\ difficulty = args.difficulty
        /\ board.rows = difficulty.rows /\ board.cols = difficulty.cols
        /\ Cells(board) = Pos(difficulty.rows, difficulty.cols)
        /\ \A p \in Cells(board) :
             /\ ~board.cell[p].isMine /\ ~board.cell[p].isRevealed
             /\ ~board.cell[p].isFlagged /\ board.cell[p].neighborMines = 0
             /\ board.cell[p].row = p[1] /\ board.cell[p].col = p[2]

\* a new game started over a lost game that had a flag placed
C15_Witness ==
    /\ args.op = "handleNewGame"
    /\ games = 2
    /\ args.was.status = "lost"
    /\ args.was.flags > 0
    /\ ~args.was.firstClick

\* C17: in every reachable state of a session the flags counter equals the
\* number of cells with isFlagged = true.
C17_FlagsCountFlagged == flags = Cardinality(Flagged(board))

\* C19: while no mine has been revealed (status initial, playing or won) no
\* cell is both flagged and revealed.
C19_NoFlaggedRevealed ==
    status \in {"initial", "playing", "won"} =>
        Flagged(board) \cap Revealed(board) = {}

\* a flood that went round a flagged mine-free cell: the flag lies next to a
\* revealed zero-count cell and is still hidden
C19_Witness ==
    /\ status = "playing"
    /\ \E f \in Flagged(board) :
         /\ ~board.cell[f].isMine /\ ~board.cell[f].isRevealed
         /\ \E x \in Around(board, f[1], f[2]) :
              board.cell[x].isRevealed /\ Opens(board, x)

\* C20: within one game a revealed cell stays revealed and does not become
\* flagged, whatever reveal, flag and chord actions follow.
C20_RevealedStays ==
    [][games' = games =>
        \A p \in Cells(board) :
            board.cell[p].isRevealed =>
                /\ p \in Cells(board')
                /\ board'.cell[p].isRevealed
                /\ board'.cell[p].isFlagged = board.cell[p].isFlagged
    ]_vars

\* a chord on a board with revealed cells that revealed more of them
C20_Witness ==
    /\ args.op = "handleChord"
    /\ Revealed(pre) # {}
    /\ Revealed(pre) \subseteq Revealed(board)
    /\ Revealed(board) # Revealed(pre)
    /\ Flagged(board) # {}

\* the state part of C39
BoardMatchesFirstClick ==
    games >= 1 =>
        IF firstClick
        THEN status = "initial" /\ Mines(board) = {} /\ Revealed(board) = {}
        ELSE Cardinality(Mines(board)) = difficulty.mines

\* C39: in every state of a session after newGame, firstClick true means
\* the status is initial and the board has no mine and no revealed cell,
\* and firstClick false means the board has exactly difficulty.mines mines.
\* The board is generated once per game, by the first reveal: the mines
\* change only in the reveal that clears firstClick, and firstClick stays
\* cleared until the next newGame.
C39_GeneratedOncePerGame ==
    /\ []BoardMatchesFirstClick
    /\ [][(games >= 1 /\ games' = games) =>
            /\ Mines(board') # Mines(board) =>
                 /\ firstClick /\ ~firstClick'
                 /\ args'.op = "handleCellRevealed" /\ args'.first
            /\ ~firstClick => ~firstClick'
            /\ (firstClick /\ args'.op = "handleCellRevealed") => ~firstClick'
       ]_vars

\* a second reveal in a game, on the mines of the first
C39_Witness ==
    /\ args.op = "handleCellRevealed" /\ ~args.first
    /\ ~firstClick /\ status = "playing"
    /\ Mines(board) = Mines(pre)
    /\ Cardinality(Mines(board)) = difficulty.mines
    /\ Revealed(board) # Revealed(pre)

(***************************************************************************)
(* Properties of useGameState (SpecState)                                   *)
(***************************************************************************)
\* C13: once the status is won or lost, startGame, reveal, flag and chord
\* operations leave it as it is; only newGame leaves the terminal state.
C13_TerminalUntilNewGame ==
    [][(/\ status \in {"won", "lost"}
        /\ args'.op \in {"startGame", "revealCell", "flagCell"})
            => status' = status]_vars

\* C14: startGame sets the status to playing, and called while the status is
\* playing it changes nothing in the session.
C14_StartGameIdempotent ==
    args.op = "startGame" =>
        /\ status = "playing"
        /\ pre.status = "playing" => Session = pre

\* a startGame called on a game that is playing, with a flag placed and the
\* timer advanced
C14_Witness ==
    /\ args.op = "startGame"
    /\ pre.status = "playing"
    /\ pre.flags > 0 /\ pre.timer > 0
    /\ Flagged(board) # {}

\* C16: a session just created by useGameState(), before any call, has
\* status initial, timer 0, flags 0, firstClick true and an empty board.
C16_CreatedInitial ==
    (moves = 0 /\ games = 0) =>
        /\ status = "initial"
        /\ timer = 0 /\ flags = 0 /\ firstClick
        /\ board = NoBoard

\* C18: flagCell on an in-bounds unrevealed cell toggles its isFlagged and
\* changes the flags counter by +1 when flagging and by -1 when unflagging;
\* applied twice to the same hidden cell it restores the board and the
\* counter; on a revealed cell it changes neither.
C18_FlagCellToggles ==
    [][args'.op = "flagCell" =>
        LET p == <<args'.row, args'.col>>
        IN /\ (p \in Cells(board) /\ ~board.cell[p].isRevealed) =>
                /\ board' = [board EXCEPT !.cell[p].isFlagged = ~@]
                /\ flags' = flags + (IF board.cell[p].isFlagged THEN -1 ELSE 1)
           /\ (p \in Cells(board) /\ board.cell[p].isRevealed) =>
                /\ board' = board
                /\ flags' = flags
           /\ (/\ args.op = "flagCell" /\ args.row = p[1] /\ args.col = p[2]
               /\ p \in Cells(board) /\ ~board.cell[p].isRevealed) =>
                /\ board' = pre.board
                /\ flags' = pre.flags
    ]_vars

\* a flag taken off a hidden cell while another cell stays flagged
C18_Witness ==
    /\ args.op = "flagCell"
    /\ <<args.row, args.col>> \in Cells(board)
    /\ pre.board.cell[<<args.row, args.col>>].isFlagged
    /\ ~board.cell[<<args.row, args.col>>].isFlagged
    /\ flags = pre.flags - 1
    /\ flags >= 1

====
